---- MODULE Spec2Model ----
(***************************************************************************)
(* Model of pkg/gce-cloud-provider/compute/gce.go: construction of the GCE *)
(* CloudProvider (config file, token source selection, token warm-up, the  *)
(* two compute service clients, project/zone resolution) and the           *)
(* googleapi error classification helpers.                                 *)
(*                                                                         *)
(* Conventions.  A Go pointer or interface value is a sequence of length   *)
(* at most one: <<>> is nil, <<x>> is a non-nil value x.  A Go error is a  *)
(* sequence of message parts: <<>> is the nil error, fmt.Errorf("p: %v",e) *)
(* is <<"p">> \o e.                                                        *)
(***************************************************************************)
EXTENDS Integers, Sequences, FiniteSets, TLC

VARIABLES
    configPath,    \* argument of CreateCloudProvider
    fs,            \* the file at configPath: "none", "missing", "malformed", "ok"
    fileCfg,       \* what the [global] section of a well-formed file holds
    gacSet,        \* os.LookupEnv("GOOGLE_APPLICATION_CREDENTIALS") reports ok
    onGCE,         \* metadata.OnGCE()
    defaultRes,    \* what google.DefaultTokenSource returns in this environment
    ctxCancelled,  \* the caller's ctx has been cancelled
    cancelAt,      \* where CreateCloudProvider was when ctx was cancelled
    pc,            \* position of CreateCloudProvider
    sub,           \* position inside createCloudService / createAlphaCloudService
    configFile,    \* local configFile (*ConfigFile)
    tsRes,         \* what generateTokenSource returned
    pollT,         \* time elapsed in the running wait.PollImmediate
    tokLog,        \* outcomes of tokenSource.Token() in the current newOauthClient
    warmups,       \* number of newOauthClient calls so far
    tokenCalls,    \* number of tokenSource.Token() calls so far
    totalWait,     \* time spent in wait.PollImmediate so far
    svc,           \* local svc (*compute.Service)
    alphasvc,      \* local alphasvc (*alpha.Service)
    md,            \* outcomes of the metadata queries made by getProjectAndZone
    pz,            \* what getProjectAndZone returned
    steps,         \* the calls CreateCloudProvider has made, in order
    stepErrs,      \* the error each of them returned
    retProvider,   \* returned *CloudProvider
    retErr,        \* returned error
    clsErr,        \* argument err of IsGCEError
    clsReason,     \* argument reason of IsGCEError
    clsRet         \* what IsGCEError / IsGCENotFoundError / IsGCEInvalidError returned

envVars == <<configPath, fs, fileCfg, gacSet, onGCE, defaultRes>>
pollVars == <<pollT, tokLog, warmups, tokenCalls, totalWait>>
flowVars == <<pc, sub, configFile, tsRes, svc, alphasvc, md, pz, steps, stepErrs,
              retProvider, retErr>>
clsVars == <<clsErr, clsReason, clsRet>>
ctxVars == <<ctxCancelled, cancelAt>>
vars == <<envVars, ctxVars, pollVars, flowVars, clsVars>>

(***************************************************************************)
(* Bounds and program constants                                            *)
(***************************************************************************)
MaxSubErrors == 3

PollInterval == 5

PollTimeout == 30

Nil == <<>>

Ptr(x) == <<x>>

Deref(p) == p[1]

(***************************************************************************)
(* ConfigFile / ConfigGlobal                                               *)
(***************************************************************************)
TokenURLs == {"", "nil", "https://alt.example/token"}

TokenBodies == {"", "body"}

ProjectIds == {"", "cfg-project"}

Zones == {"", "us-central1-a"}

ConfigGlobal == [TokenURL : TokenURLs, TokenBody : TokenBodies,
                 ProjectId : ProjectIds, Zone : Zones]

EmptyConfig == [TokenURL |-> "", TokenBody |-> "", ProjectId |-> "", Zone |-> ""]

ErrOpen == <<"couldn't open cloud provider configuration", "open failed">>

ErrParse == <<"couldn't read cloud provider configuration", "parse failed">>

\* readConfig: the empty path is "no configuration", a nil pointer and no error.
readConfig(path, file, content) ==
    IF path = "" THEN [cfg |-> Nil, err |-> Nil]
    ELSE IF file \in {"none", "missing"} THEN [cfg |-> Nil, err |-> ErrOpen]
    ELSE IF file = "malformed" THEN [cfg |-> Nil, err |-> ErrParse]
    ELSE [cfg |-> Ptr(content), err |-> Nil]

(***************************************************************************)
(* Token sources and generateTokenSource                                   *)
(***************************************************************************)
CloudPlatformScope == "https://www.googleapis.com/auth/cloud-platform"

ComputeScope == "https://www.googleapis.com/auth/compute"

NewAltTokenSource(tokenURL, tokenBody) ==
    [kind |-> "alt", url |-> tokenURL, body |-> tokenBody, scopes |-> {}]

DefaultTokenSource ==
    [kind |-> "default", url |-> "", body |-> "",
     scopes |-> {CloudPlatformScope, ComputeScope}]

ComputeTokenSource(scope) ==
    [kind |-> "compute", url |-> "", body |-> "", scopes |-> {scope}]

ErrDefaultCredentials == <<"google: could not find default credentials">>

\* The two outcomes of google.DefaultTokenSource(ctx, scopes...).
DefaultResults == {[ts |-> Ptr(DefaultTokenSource), err |-> Nil],
                   [ts |-> Nil, err |-> ErrDefaultCredentials]}

\* Mutant: the alternate branch is taken only when no credentials file is set.
generateTokenSource_AltNeedsNoEnv(cfg, dflt, gac, gce) ==
    IF cfg # Nil /\ Deref(cfg).TokenURL # "" /\ Deref(cfg).TokenURL # "nil" /\ ~gac
    THEN [ts |-> Ptr(NewAltTokenSource(Deref(cfg).TokenURL, Deref(cfg).TokenBody)),
          err |-> Nil, built |-> 0]
    ELSE [ts |-> IF ~gac /\ gce THEN Ptr(ComputeTokenSource(CloudPlatformScope))
                 ELSE dflt.ts,
          err |-> dflt.err, built |-> 1]

\* Mutant: the metadata override fires whenever the host is on GCE.
generateTokenSource_OverrideIgnoresEnv(cfg, dflt, gac, gce) ==
    IF cfg # Nil /\ Deref(cfg).TokenURL # "" /\ Deref(cfg).TokenURL # "nil"
    THEN [ts |-> Ptr(NewAltTokenSource(Deref(cfg).TokenURL, Deref(cfg).TokenBody)),
          err |-> Nil, built |-> 0]
    ELSE [ts |-> IF gce THEN Ptr(ComputeTokenSource(CloudPlatformScope))
                 ELSE dflt.ts,
          err |-> dflt.err, built |-> 1]

\* Mutant: the metadata override never fires.
generateTokenSource_NoOverride(cfg, dflt, gac, gce) ==
    IF cfg # Nil /\ Deref(cfg).TokenURL # "" /\ Deref(cfg).TokenURL # "nil"
    THEN [ts |-> Ptr(NewAltTokenSource(Deref(cfg).TokenURL, Deref(cfg).TokenBody)),
          err |-> Nil, built |-> 0]
    ELSE [ts |-> dflt.ts, err |-> dflt.err, built |-> 1]

\* Mutant: the override clears the error of the default source it replaces.
generateTokenSource_OverrideClearsErr(cfg, dflt, gac, gce) ==
    IF cfg # Nil /\ Deref(cfg).TokenURL # "" /\ Deref(cfg).TokenURL # "nil"
    THEN [ts |-> Ptr(NewAltTokenSource(Deref(cfg).TokenURL, Deref(cfg).TokenBody)),
          err |-> Nil, built |-> 0]
    ELSE IF ~gac /\ gce
         THEN [ts |-> Ptr(ComputeTokenSource(CloudPlatformScope)), err |-> Nil,
               built |-> 1]
         ELSE [ts |-> dflt.ts, err |-> dflt.err, built |-> 1]

\* generateTokenSource(ctx, configFile).  dflt is what google.DefaultTokenSource
\* returns when called, gac whether GOOGLE_APPLICATION_CREDENTIALS is set, gce
\* metadata.OnGCE().  built counts the constructions of the default source.
generateTokenSource(cfg, dflt, gac, gce) ==
    IF cfg # Nil /\ Deref(cfg).TokenURL # "" /\ Deref(cfg).TokenURL # "nil"
    THEN [ts |-> Ptr(NewAltTokenSource(Deref(cfg).TokenURL, Deref(cfg).TokenBody)),
          err |-> Nil, built |-> 0]
    ELSE LET tokenSource == dflt.ts
             err == dflt.err
         IN  IF gac
             THEN [ts |-> tokenSource, err |-> err, built |-> 1]
             ELSE IF gce
                  THEN [ts |-> Ptr(ComputeTokenSource(CloudPlatformScope)),
                        err |-> err, built |-> 1]
                  ELSE [ts |-> tokenSource, err |-> err, built |-> 1]

(***************************************************************************)
(* getProjectAndZone                                                       *)
(***************************************************************************)
ErrMetadataZone == <<"metadata: zone not available">>

ErrMetadataProject == <<"metadata: project-id not available">>

\* The outcomes of metadata.Zone() and metadata.ProjectID().
ZoneOutcomes == {[val |-> "us-east1-b", err |-> Nil],
                 [val |-> "", err |-> ErrMetadataZone]}

ProjectOutcomes == {[val |-> "my-project", err |-> Nil],
                    [val |-> "", err |-> ErrMetadataProject]}

\* Mutant: the zone of the configuration file is ignored.
getProjectAndZone_MetadataZoneOnly(config, mdZone, mdProject) ==
    LET needProject == config = Nil \/ Deref(config).ProjectId = ""
    IN  IF mdZone.err # Nil
        THEN [project |-> "", zone |-> "", err |-> mdZone.err, queries |-> <<"zone">>]
        ELSE IF needProject /\ mdProject.err # Nil
        THEN [project |-> "", zone |-> "", err |-> mdProject.err,
              queries |-> <<"zone", "project-id">>]
        ELSE [project |-> IF needProject THEN mdProject.val ELSE Deref(config).ProjectId,
              zone |-> mdZone.val, err |-> Nil,
              queries |-> <<"zone">> \o (IF needProject THEN <<"project-id">> ELSE <<>>)]

\* getProjectAndZone(config).  mdZone and mdProject are what metadata.Zone() and
\* metadata.ProjectID() return when queried; queries lists the queries made.
getProjectAndZone(config, mdZone, mdProject) ==
    LET needZone == config = Nil \/ Deref(config).Zone = ""
        needProject == config = Nil \/ Deref(config).ProjectId = ""
        zone == IF needZone THEN mdZone.val ELSE Deref(config).Zone
        zq == IF needZone THEN <<"zone">> ELSE <<>>
    IN  IF needZone /\ mdZone.err # Nil
        THEN [project |-> "", zone |-> "", err |-> mdZone.err, queries |-> zq]
        ELSE IF needProject /\ mdProject.err # Nil
        THEN [project |-> "", zone |-> "", err |-> mdProject.err,
              queries |-> zq \o <<"project-id">>]
        ELSE [project |-> IF needProject THEN mdProject.val ELSE Deref(config).ProjectId,
              zone |-> zone, err |-> Nil,
              queries |-> zq \o (IF needProject THEN <<"project-id">> ELSE <<>>)]

(***************************************************************************)
(* IsGCEError and the two named classifications                            *)
(***************************************************************************)
Reasons == {"notFound", "invalid", "resourceInUseByAnotherResource"}

ErrorItems == [Reason : Reasons]

SeqsUpTo(S, n) == UNION {[1..k -> S] : k \in 0..n}

\* Error values: the nil error, an error of another dynamic type, and a
\* *googleapi.Error with its list of sub-errors.
ErrorValues ==
    {Nil, Ptr([type |-> "*errors.errorString", Errors |-> <<>>])}
    \cup {Ptr([type |-> "*googleapi.Error", Errors |-> es]) :
            es \in SeqsUpTo(ErrorItems, MaxSubErrors)}

RECURSIVE scanReasons(_, _, _)
\* The range loop over apiErr.Errors, from index i on.
scanReasons(errs, reason, i) ==
    IF i > Len(errs) THEN FALSE
    ELSE IF errs[i].Reason = reason THEN TRUE
    ELSE scanReasons(errs, reason, i + 1)

\* Mutant: only the first sub-error is looked at.
IsGCEError_FirstOnly(err, reason) ==
    LET ok == err # Nil /\ Deref(err).type = "*googleapi.Error"
    IN  IF ~ok THEN FALSE
        ELSE Len(Deref(err).Errors) > 0 /\ Deref(err).Errors[1].Reason = reason

\* IsGCEError(err, reason): the type assertion to *googleapi.Error, then the loop.
IsGCEError(err, reason) ==
    LET ok == err # Nil /\ Deref(err).type = "*googleapi.Error"
    IN  IF ~ok THEN FALSE ELSE scanReasons(Deref(err).Errors, reason, 1)

IsGCENotFoundError(err) == IsGCEError(err, "notFound")

IsGCEInvalidError(err) == IsGCEError(err, "invalid")

(***************************************************************************)
(* CreateCloudProvider                                                     *)
(***************************************************************************)
Order == <<"readConfig", "generateTokenSource", "createCloudService",
           "createAlphaCloudService", "getProjectAndZone">>

ServiceSteps == {"createCloudService", "createAlphaCloudService"}

TokenOutcomes == {"ok", "err"}

ErrWaitTimeout == <<"timed out waiting for the condition">>

ErrNewService == <<"client is nil">>

NewServiceOutcomes == {Nil, ErrNewService}

UserAgent == "GCE CSI Driver/vendorVersion (GOOS GOARCH)"

\* oauth2.NewClient(ctx, tokenSource) handed to compute.New / alpha.New.
NewService(api, tokenSource) ==
    [api |-> api, ts |-> tokenSource, UserAgent |-> UserAgent]

ApiOf(step) == IF step = "createCloudService" THEN "compute/v1" ELSE "compute/v0.alpha"

ErrProjectAndZone(e) == <<"Failed getting Project and Zone">> \o e

NewCloudProvider(service, alphaService, project, zone) ==
    [service |-> service, alphaService |-> alphaService, project |-> project,
     zone |-> zone, zonesCache |-> <<>>]

Init ==
    /\ \/ configPath = "" /\ fs = "none" /\ fileCfg = EmptyConfig
       \/ configPath = "/etc/gce.conf" /\ fs \in {"missing", "malformed"}
          /\ fileCfg = EmptyConfig
       \/ configPath = "/etc/gce.conf" /\ fs = "ok" /\ fileCfg \in ConfigGlobal
    /\ gacSet \in BOOLEAN
    /\ onGCE \in BOOLEAN
    /\ defaultRes \in DefaultResults
    /\ ctxCancelled = FALSE
    /\ cancelAt = Nil
    /\ pc = "readConfig"
    /\ sub = "start"
    /\ configFile = Nil
    /\ tsRes = Nil
    /\ pollT = 0
    /\ tokLog = <<>>
    /\ warmups = 0
    /\ tokenCalls = 0
    /\ totalWait = 0
    /\ svc = Nil
    /\ alphasvc = Nil
    /\ md = Nil
    /\ pz = Nil
    /\ steps = <<>>
    /\ stepErrs = <<>>
    /\ retProvider = Nil
    /\ retErr = Nil
    /\ clsErr = Nil
    /\ clsReason = ""
    /\ clsRet = Nil

\* Lines 76-79: readConfig and its error check.
ReadConfig ==
    /\ pc = "readConfig"
    /\ LET r == readConfig(configPath, fs, fileCfg)
       IN  /\ configFile' = r.cfg
           /\ steps' = Append(steps, "readConfig")
           /\ stepErrs' = Append(stepErrs, r.err)
           /\ IF r.err # Nil
              THEN pc' = "done" /\ retProvider' = Nil /\ retErr' = r.err
              ELSE pc' = "generateTokenSource" /\ UNCHANGED <<retProvider, retErr>>
    /\ UNCHANGED <<envVars, ctxVars, pollVars, sub, tsRes, svc, alphasvc, md, pz,
                   clsVars>>

\* Lines 85-88: generateTokenSource and its error check.
GenerateTokenSource ==
    /\ pc = "generateTokenSource"
    /\ LET r == generateTokenSource(configFile, defaultRes, gacSet, onGCE)
       IN  /\ tsRes' = Ptr(r)
           /\ steps' = Append(steps, "generateTokenSource")
           /\ stepErrs' = Append(stepErrs, r.err)
           /\ IF r.err # Nil
              THEN pc' = "done" /\ retProvider' = Nil /\ retErr' = r.err
              ELSE pc' = "createCloudService" /\ UNCHANGED <<retProvider, retErr>>
    /\ UNCHANGED <<envVars, ctxVars, pollVars, sub, configFile, svc, alphasvc, md,
                   pz, clsVars>>

\* One call of tokenSource.Token() by the poll condition, with outcome o.
TokenCall(o) ==
    tokenCalls' = tokenCalls + 1

\* The service step fails with error e: CreateCloudProvider returns (nil, e).
FailService(e) ==
    /\ stepErrs' = Append(stepErrs, e)
    /\ pc' = "done"
    /\ sub' = "start"
    /\ retProvider' = Nil
    /\ retErr' = e

\* Mutant: a failed Token() call is handed to the poll as its error.
condition_AbortsOnError(o) ==
    [done |-> o = "ok", err |-> IF o = "err" THEN <<"error fetching initial token">> ELSE Nil]

\* The poll condition of newOauthClient: a Token() error is logged and reported
\* as (false, nil), a token as (true, nil).
condition(o) ==
    IF o = "err" THEN [done |-> FALSE, err |-> Nil] ELSE [done |-> TRUE, err |-> Nil]

\* wait.PollImmediate(5s, 30s, ...): the ticker fires every PollInterval while the
\* timer of PollTimeout has not fired; when both are due either may come first.
TickDue(t) == t + PollInterval <= PollTimeout

TimerDue(t) == t + PollInterval >= PollTimeout

\* newOauthClient is entered and the poll runs its condition at once.
PollFirst ==
    /\ pc \in ServiceSteps
    /\ sub = "start"
    /\ \E o \in TokenOutcomes :
         LET c == condition(o)
         IN  /\ TokenCall(o)
             /\ tokLog' = <<o>>
             /\ pollT' = 0
             /\ warmups' = warmups + 1
             /\ steps' = Append(steps, pc)
             /\ UNCHANGED totalWait
             /\ IF c.err # Nil THEN FailService(c.err)
                ELSE /\ sub' = IF c.done THEN "client" ELSE "wait"
                     /\ UNCHANGED <<pc, stepErrs, retProvider, retErr>>
    /\ UNCHANGED <<envVars, ctxVars, configFile, tsRes, svc, alphasvc, md, pz,
                   clsVars>>

\* The ticker fires: the condition runs again.
PollTick ==
    /\ pc \in ServiceSteps
    /\ sub = "wait"
    /\ TickDue(pollT)
    /\ \E o \in TokenOutcomes :
         LET c == condition(o)
         IN  /\ TokenCall(o)
             /\ tokLog' = Append(tokLog, o)
             /\ pollT' = pollT + PollInterval
             /\ totalWait' = totalWait + PollInterval
             /\ UNCHANGED <<warmups, steps>>
             /\ IF c.err # Nil THEN FailService(c.err)
                ELSE /\ sub' = IF c.done THEN "client" ELSE "wait"
                     /\ UNCHANGED <<pc, stepErrs, retProvider, retErr>>
    /\ UNCHANGED <<envVars, ctxVars, configFile, tsRes, svc, alphasvc, md, pz,
                   clsVars>>

\* The timer fires and the poller closes its channel: the condition runs one
\* last time, and the poll ends with ErrWaitTimeout unless it is met.
PollTimedOut ==
    /\ pc \in ServiceSteps
    /\ sub = "wait"
    /\ TimerDue(pollT)
    /\ \E o \in TokenOutcomes :
         LET c == condition(o)
         IN  /\ TokenCall(o)
             /\ tokLog' = Append(tokLog, o)
             /\ pollT' = PollTimeout
             /\ totalWait' = totalWait + (PollTimeout - pollT)
             /\ UNCHANGED <<warmups, steps>>
             /\ IF c.err # Nil THEN FailService(c.err)
                ELSE IF c.done
                THEN sub' = "client" /\ UNCHANGED <<pc, stepErrs, retProvider, retErr>>
                ELSE FailService(ErrWaitTimeout)
    /\ UNCHANGED <<envVars, ctxVars, configFile, tsRes, svc, alphasvc, md, pz,
                   clsVars>>

\* Mutant: the preview client is built on a token source of its own.
ClientTokenSource_Fresh(step, tokenSource) ==
    IF step = "createAlphaCloudService" THEN Ptr(DefaultTokenSource) ELSE tokenSource

\* The tokenSource argument CreateCloudProvider passes down to newOauthClient.
ClientTokenSource(step, tokenSource) == tokenSource

\* newOauthClient returned a client: compute.New / alpha.New, then the user agent.
BuildService ==
    /\ pc \in ServiceSteps
    /\ sub = "client"
    /\ \E e \in NewServiceOutcomes :
         IF e # Nil
         THEN FailService(e) /\ UNCHANGED <<svc, alphasvc>>
         ELSE /\ stepErrs' = Append(stepErrs, Nil)
              /\ sub' = "start"
              /\ UNCHANGED <<retProvider, retErr>>
              /\ LET s == Ptr(NewService(ApiOf(pc), ClientTokenSource(pc, Deref(tsRes).ts)))
                 IN  IF pc = "createCloudService"
                     THEN /\ svc' = s
                          /\ pc' = "createAlphaCloudService"
                          /\ UNCHANGED alphasvc
                     ELSE /\ alphasvc' = s
                          /\ pc' = "getProjectAndZone"
                          /\ UNCHANGED svc
    /\ UNCHANGED <<envVars, ctxVars, pollVars, configFile, tsRes, md, pz, steps,
                   clsVars>>

\* Mutant: the provider is returned without its preview client.
AssembleProvider_Partial(service, alphaService, r) ==
    Ptr(NewCloudProvider(service, Nil, r.project, r.zone))

\* Lines 105-111: the returned CloudProvider.
AssembleProvider(service, alphaService, r) ==
    Ptr(NewCloudProvider(service, alphaService, r.project, r.zone))

\* Lines 100-111: getProjectAndZone, its error check and the result.
GetProjectAndZone ==
    /\ pc = "getProjectAndZone"
    /\ \E z \in ZoneOutcomes, p \in ProjectOutcomes :
         LET r == getProjectAndZone(configFile, z, p)
         IN  /\ md' = Ptr([zone |-> z, project |-> p])
             /\ pz' = Ptr(r)
             /\ steps' = Append(steps, "getProjectAndZone")
             /\ stepErrs' = Append(stepErrs, r.err)
             /\ pc' = "done"
             /\ IF r.err # Nil
                THEN retProvider' = Nil /\ retErr' = ErrProjectAndZone(r.err)
                ELSE retProvider' = AssembleProvider(svc, alphasvc, r) /\ retErr' = Nil
    /\ UNCHANGED <<envVars, ctxVars, pollVars, sub, configFile, tsRes, svc,
                   alphasvc, clsVars>>

\* The caller cancels ctx while CreateCloudProvider runs.
Cancel ==
    /\ pc # "done"
    /\ ~ctxCancelled
    /\ ctxCancelled' = TRUE
    /\ cancelAt' = Ptr([pc |-> pc, sub |-> sub, tokenCalls |-> tokenCalls])
    /\ UNCHANGED <<envVars, pollVars, flowVars, clsVars>>

Next ==
    \/ ReadConfig
    \/ GenerateTokenSource
    \/ PollFirst
    \/ PollTick
    \/ PollTimedOut
    \/ BuildService
    \/ GetProjectAndZone
    \/ Cancel

Spec == Init /\ [][Next]_vars

\* A caller classifies an error value.
Classify ==
    \E e \in ErrorValues, r \in Reasons :
        /\ clsErr' = e
        /\ clsReason' = r
        /\ clsRet' = Ptr([generic |-> IsGCEError(e, r),
                          notFound |-> IsGCENotFoundError(e),
                          invalid |-> IsGCEInvalidError(e)])
        /\ UNCHANGED <<envVars, ctxVars, pollVars, flowVars>>

\* Classification is checked in one environment, with CreateCloudProvider idle.
InitCls ==
    /\ Init
    /\ configPath = "" /\ gacSet /\ onGCE /\ defaultRes.err = Nil

NextCls == Classify

SpecCls == InitCls /\ [][NextCls]_vars

(***************************************************************************)
(* Properties                                                              *)
(***************************************************************************)
AltApplies(cfg) ==
    cfg # Nil /\ Deref(cfg).TokenURL # "" /\ Deref(cfg).TokenURL # "nil"

AllErr(log) == \A i \in 1..Len(log) : log[i] = "err"

LastOf(q) == q[Len(q)]

IsPrefix(q, t) == Len(q) <= Len(t) /\ SubSeq(t, 1, Len(q)) = q

Count(q, x) == Cardinality({i \in 1..Len(q) : q[i] = x})

\* C1: whenever the configuration is present and its TokenURL is neither empty
\* nor "nil", generateTokenSource returns the alternate token source built from
\* (TokenURL, TokenBody) and a nil error, whatever the environment variable, the
\* OnGCE probe and the outcome of the default credential source are.
C1_AltBranchWins ==
    (tsRes # Nil /\ AltApplies(configFile)) =>
        /\ Deref(tsRes).ts = Ptr(NewAltTokenSource(Deref(configFile).TokenURL,
                                                   Deref(configFile).TokenBody))
        /\ Deref(tsRes).err = Nil

C1_Witness ==
    /\ tsRes # Nil
    /\ AltApplies(configFile)
    /\ gacSet /\ onGCE /\ defaultRes.err # Nil
    /\ Deref(tsRes).ts # Nil /\ Deref(Deref(tsRes).ts).kind = "alt"

\* C2: with the configuration absent or its TokenURL empty, the environment
\* variable absent and OnGCE true, generateTokenSource selects the compute
\* (instance metadata) token source scoped to cloud-platform, not the default one.
C2_MetadataOverride ==
    (/\ tsRes # Nil
     /\ (configFile = Nil \/ Deref(configFile).TokenURL = "")
     /\ ~gacSet /\ onGCE) =>
        /\ Deref(tsRes).ts = Ptr(ComputeTokenSource(CloudPlatformScope))
        /\ Deref(tsRes).ts # defaultRes.ts

C2_Witness ==
    /\ tsRes # Nil
    /\ configFile = Nil
    /\ ~gacSet /\ onGCE
    /\ Deref(Deref(tsRes).ts).kind = "compute"

\* C3: when the alternate branch does not apply and the environment variable is
\* present or OnGCE is false, generateTokenSource returns exactly the (source,
\* error) pair of the default credential source, built once, and a non-nil error
\* reaches the caller of CreateCloudProvider unchanged.
C3_DefaultAsIs ==
    (/\ tsRes # Nil
     /\ ~AltApplies(configFile)
     /\ (gacSet \/ ~onGCE)) =>
        /\ Deref(tsRes).ts = defaultRes.ts
        /\ Deref(tsRes).err = defaultRes.err
        /\ Deref(tsRes).built = 1
        /\ defaultRes.err # Nil =>
             pc = "done" /\ retProvider = Nil /\ retErr = defaultRes.err

C3_Witness ==
    /\ tsRes # Nil
    /\ configFile = Nil
    /\ gacSet /\ onGCE
    /\ defaultRes.err # Nil
    /\ retErr = ErrDefaultCredentials

\* C10: when the metadata override fires, the error returned with the compute
\* token source is the error of the default credential source; if that
\* construction failed, CreateCloudProvider fails with it before any warm-up or
\* client construction.
C10_OverrideKeepsDefaultError ==
    (/\ tsRes # Nil
     /\ ~AltApplies(configFile)
     /\ ~gacSet /\ onGCE) =>
        /\ Deref(tsRes).ts = Ptr(ComputeTokenSource(CloudPlatformScope))
        /\ Deref(tsRes).err = defaultRes.err
        /\ defaultRes.err # Nil =>
             /\ pc = "done" /\ retProvider = Nil /\ retErr = defaultRes.err
             /\ warmups = 0 /\ tokenCalls = 0 /\ svc = Nil /\ alphasvc = Nil
             /\ steps = <<"readConfig", "generateTokenSource">>

C10_Witness ==
    /\ tsRes # Nil
    /\ ~AltApplies(configFile)
    /\ ~gacSet /\ onGCE
    /\ defaultRes.err # Nil
    /\ Deref(tsRes).ts = Ptr(ComputeTokenSource(CloudPlatformScope))
    /\ retErr = ErrDefaultCredentials

\* C4: the warm-up polls Token() every PollInterval for at most PollTimeout; a
\* failed attempt is followed by the next attempt and never ends the poll; the
\* first successful attempt ends it with success at once; without a success it
\* ends with ErrWaitTimeout at the ceiling after a bounded number of attempts.
C4_Warmup ==
    warmups >= 1 =>
        /\ pollT \in 0..PollTimeout /\ pollT % PollInterval = 0
        /\ totalWait <= warmups * PollTimeout
        \* one attempt at once, one per tick, one more when the timer fires
        /\ Len(tokLog) >= pollT \div PollInterval + 1
        /\ Len(tokLog) <= pollT \div PollInterval + 2
        /\ Len(tokLog) <= PollTimeout \div PollInterval + 2
        \* every attempt that was followed by another one had failed
        /\ \A i \in 1..(Len(tokLog) - 1) : tokLog[i] = "err"
        /\ sub = "wait" => AllErr(tokLog)
        /\ sub = "client" => LastOf(tokLog) = "ok"
        \* a failed last attempt with the poll over: only at the ceiling
        /\ (sub # "wait" /\ LastOf(tokLog) = "err") =>
             /\ pollT = PollTimeout
             /\ pc = "done" /\ retProvider = Nil /\ retErr = ErrWaitTimeout
        /\ retErr = ErrWaitTimeout =>
             /\ AllErr(tokLog) /\ pollT = PollTimeout
             /\ Len(tokLog) >= PollTimeout \div PollInterval + 1
        \* success is returned at the time of the attempt that succeeded
        /\ LastOf(tokLog) = "ok" => pollT <= (Len(tokLog) - 1) * PollInterval

C4_Witness ==
    /\ warmups = 1
    /\ retErr = ErrWaitTimeout
    /\ AllErr(tokLog)
    /\ Len(tokLog) = PollTimeout \div PollInterval + 2
    /\ pollT = PollTimeout

\* C5: when the caller's ctx is cancelled while the warm-up is retrying (every
\* attempt so far has failed), no further Token() attempt is made.
C5_NoAttemptAfterCancel ==
    (ctxCancelled /\ Deref(cancelAt).sub = "wait") =>
        tokenCalls = Deref(cancelAt).tokenCalls

\* C6: CreateCloudProvider calls readConfig, generateTokenSource,
\* createCloudService, createAlphaCloudService, getProjectAndZone in that order
\* and returns either (nil, the error of the first call that failed), having made
\* no later call, or a provider with both services, project, zone and an empty
\* zonesCache and a nil error; a preview client implies a stable one, each client
\* follows a successful token fetch, and no partial provider is returned.
C6_FailFastOrComplete ==
    /\ IsPrefix(steps, Order)
    /\ pc # "done" => (retProvider = Nil /\ retErr = Nil)
    /\ alphasvc # Nil => (svc # Nil /\ warmups = 2 /\ LastOf(tokLog) = "ok")
    /\ svc # Nil => (warmups >= 1 /\ tokenCalls >= warmups)
    /\ (svc # Nil /\ warmups = 1) => LastOf(tokLog) = "ok"
    /\ pc = "done" =>
        /\ Len(stepErrs) = Len(steps)
        /\ \A i \in 1..(Len(steps) - 1) : stepErrs[i] = Nil
        /\ \/ /\ retProvider = Nil
              /\ LastOf(stepErrs) # Nil
              /\ retErr = IF LastOf(steps) = "getProjectAndZone"
                          THEN ErrProjectAndZone(LastOf(stepErrs))
                          ELSE LastOf(stepErrs)
           \/ /\ retErr = Nil
              /\ steps = Order
              /\ LastOf(stepErrs) = Nil
              /\ svc # Nil /\ alphasvc # Nil /\ pz # Nil
              /\ retProvider = Ptr([service |-> svc, alphaService |-> alphasvc,
                                    project |-> Deref(pz).project,
                                    zone |-> Deref(pz).zone,
                                    zonesCache |-> <<>>])

C6_Witness ==
    /\ pc = "done"
    /\ steps = <<"readConfig", "generateTokenSource", "createCloudService">>
    /\ stepErrs = <<Nil, Nil, ErrNewService>>
    /\ retProvider = Nil /\ retErr = ErrNewService
    /\ alphasvc = Nil /\ warmups = 1

ZoneWanted(cfg, m) ==
    IF cfg = Nil \/ Deref(cfg).Zone = "" THEN m.zone.val ELSE Deref(cfg).Zone

ProjectWanted(cfg, m) ==
    IF cfg = Nil \/ Deref(cfg).ProjectId = "" THEN m.project.val
    ELSE Deref(cfg).ProjectId

\* C7 as stated: the returned zone is the configured zone when that is non-empty
\* and the metadata zone otherwise, whatever project resolution does, and the
\* returned project likewise.
C7_FieldsIndependent ==
    pz # Nil =>
        /\ Deref(pz).zone = ZoneWanted(configFile, Deref(md))
        /\ Deref(pz).project = ProjectWanted(configFile, Deref(md))

\* C7 as amended: when getProjectAndZone returns no error, the zone is the
\* configured zone if non-empty and the metadata zone otherwise, and the project
\* likewise; it returns an error exactly when a field that needs the metadata
\* fallback cannot be queried, then with empty project and zone, the metadata
\* error, no second query of the same field, and CreateCloudProvider fails.
C7_ResolvedOnSuccess ==
    pz # Nil =>
        LET r == Deref(pz)
            m == Deref(md)
            needZone == configFile = Nil \/ Deref(configFile).Zone = ""
            needProject == configFile = Nil \/ Deref(configFile).ProjectId = ""
            zoneFails == needZone /\ m.zone.err # Nil
            projectFails == needProject /\ m.project.err # Nil
        IN  /\ r.err = Nil <=> (~zoneFails /\ ~projectFails)
            /\ r.err = Nil =>
                 /\ r.zone = ZoneWanted(configFile, m)
                 /\ r.project = ProjectWanted(configFile, m)
                 /\ retProvider # Nil
                 /\ Deref(retProvider).zone = r.zone
                 /\ Deref(retProvider).project = r.project
            /\ r.err # Nil =>
                 /\ r.zone = "" /\ r.project = ""
                 /\ r.err = IF zoneFails THEN m.zone.err ELSE m.project.err
                 /\ retProvider = Nil /\ retErr = ErrProjectAndZone(r.err)
            /\ Count(r.queries, "zone") = (IF needZone THEN 1 ELSE 0)
            /\ Count(r.queries, "project-id") <= (IF needProject THEN 1 ELSE 0)
            /\ Len(r.queries) <= 2

C7_Witness ==
    /\ pz # Nil
    /\ configFile # Nil
    /\ Deref(configFile).Zone = "us-central1-a"
    /\ Deref(configFile).ProjectId = ""
    /\ Deref(md).project = [val |-> "my-project", err |-> Nil]
    /\ Deref(pz).err = Nil
    /\ Deref(pz).project = "my-project"
    /\ Deref(pz).zone = "us-central1-a"

HasReason(err, reason) ==
    /\ err # Nil
    /\ Deref(err).type = "*googleapi.Error"
    /\ \E i \in 1..Len(Deref(err).Errors) : Deref(err).Errors[i].Reason = reason

C9_SingleWarmup ==
    /\ warmups <= 1
    /\ totalWait <= PollTimeout

\* C9 as amended: readConfig, generateTokenSource, createCloudService,
\* createAlphaCloudService and getProjectAndZone are each called at most once;
\* the warm-up runs once per service client, so at most twice and exactly twice
\* when a provider is returned, polling for at most twice PollTimeout in total;
\* both clients are built from the token source generateTokenSource returned.
C9_WarmupPerClient ==
    /\ \A i \in 1..Len(Order) : Count(steps, Order[i]) <= 1
    /\ warmups = Count(steps, "createCloudService")
                 + Count(steps, "createAlphaCloudService")
    /\ warmups <= 2
    /\ totalWait <= 2 * PollTimeout
    /\ tokenCalls <= 2 * (PollTimeout \div PollInterval + 2)
    /\ retProvider # Nil => warmups = 2
    /\ svc # Nil => Deref(svc).ts = Deref(tsRes).ts
    /\ alphasvc # Nil => Deref(alphasvc).ts = Deref(tsRes).ts

C9_Witness ==
    /\ retProvider # Nil
    /\ warmups = 2
    /\ totalWait > PollTimeout
    /\ Deref(svc).ts = Deref(alphasvc).ts

====
